---- MODULE Spec2Model ----
(***************************************************************************)
(* A model of the ui-image component                                       *)
(* (packages/components/src/components/ui-image/ui-image.tsx).             *)
(*                                                                         *)
(* The component is a single-threaded, event-driven object.  Each action   *)
(* below is one run-to-completion handler of the class: a @Method, a DOM   *)
(* event handler, a FileReader callback, or the continuation of the        *)
(* awaited write operation.  The controls are taken to be rendered         *)
(* (canWrite), handleSend and handleFileSelect are invoked as methods in   *)
(* any state, and the Cancel closure runs only while its button is         *)
(* rendered.                                                               *)
(***************************************************************************)
EXTENDS Integers, Sequences, FiniteSets, Bags, TLC

\* ------------------------------------------------------------------ bounds

\* FileReader reads pending at one time.
MaxReaders == 2
\* Write-operation promises in flight at one time.
MaxSends == 2
\* Byte counts given to formatFileSize have at most MaxDigits base-1024 digits.
MaxDigits == 6

\* ------------------------------------------------------------ value spaces

Null == "null"
Undefined == "undefined"
\* A Date is kept by its age: Fresh is the clock's present value (new Date()),
\* Stale any earlier one.  The component stores and shows dates and never
\* compares them.
Fresh == "fresh"
Stale == "stale"
\* A numeric field that is undefined (a metadata field spread from null).
UndefinedNum == -1

\* The files the picker can deliver: name, size in bytes, content.
Files == {"a.png", "b.png"}
FileSize == ("a.png" :> 1536) @@ ("b.png" :> 2048)
FileBytes == ("a.png" :> "AAAA") @@ ("b.png" :> "BBBB")

\* The write operations a caller can supply, named in the order of their
\* first use: f2 is supplied only after f1 has been.
WriteOps == {"f1", "f2"}

\* FileReader.readAsDataURL: the data URL is a function of the file's bytes.
DataURL(file) == "data:image/png;base64," \o FileBytes[file]

\* HTMLImageElement.naturalWidth / naturalHeight of a decoded data URL: the
\* files of the model hold pictures of the same dimensions.
NaturalWidth(url) == 4
NaturalHeight(url) == 3

VARIABLES
    \* The @State fields and the stored operation of the class.
    isObserving,
    selectedFile,
    currentImageUrl,
    metadata,
    loading,
    statusText,
    statusType,
    storedWriteOperation,
    \* this.fileInput.value: the picker's own value.
    fileInputValue,
    \* The bag of files with a FileReader read pending.
    readers,
    \* The bag of files passed to write operations whose promise is pending.
    calls,
    \* The rendered <img> is loading its src: a load or error event is due.
    imgLoading,
    \* The latest write operation a caller has passed to setValue.
    lastSupplied,
    \* The handler that ran last.
    lastEvent,
    \* The write-operation invocations that handler made, in order.
    emitted,
    \* The argument and the result of formatFileSize.
    fmtBytes,
    fmtResult

vars == <<isObserving, selectedFile, currentImageUrl, metadata, loading,
          statusText, statusType, storedWriteOperation, fileInputValue,
          readers, calls, imgLoading, lastSupplied, lastEvent, emitted,
          fmtBytes, fmtResult>>

\* The variables of the size formatter's own specification.
fmtVars == <<fmtBytes, fmtResult>>

\* formatFileSize has not run.
NoResult == [num |-> -1, unit |-> "none"]

\* this.metadata = null
NullMetadata == [isNull |-> TRUE, format |-> Undefined, width |-> UndefinedNum,
                 height |-> UndefinedNum, size |-> UndefinedNum,
                 lastUpdated |-> Undefined]

\* { ...this.metadata, lastUpdated: new Date() }: spreading null gives no
\* fields.
TouchMetadata(meta) ==
    [meta EXCEPT !.isNull = FALSE, !.lastUpdated = Fresh]

\* updateStatus's metadata with the timestamp refreshed whenever an image is
\* shown, whatever the classification.
StatusMetadataAnyImage(type, img, meta) ==
    IF type = "success" \/ (img # Null /\ img # "")
    THEN TouchMetadata(meta)
    ELSE meta

\* The metadata updateStatus leaves: refreshed when the classification is
\* success, or when an image is shown and the classification is not error.
StatusMetadata(type, img, meta) ==
    IF type = "success" \/ (img # Null /\ img # "" /\ type # "error")
    THEN TouchMetadata(meta)
    ELSE meta

\* updateStatus(msg, type), called with currentImageUrl = img and
\* this.metadata = meta.
updateStatus(msg, type, img, meta) ==
    /\ statusText' = msg
    /\ statusType' = type
    /\ metadata' = StatusMetadata(type, img, meta)

\* The component after construction.
InitComponent ==
    /\ isObserving = FALSE
    /\ selectedFile = Null
    /\ currentImageUrl = Null
    /\ metadata = NullMetadata
    /\ loading = FALSE
    /\ statusText = "No data received yet"
    /\ statusType = "neutral"
    /\ storedWriteOperation = Undefined
    /\ fileInputValue = ""
    /\ readers = EmptyBag
    /\ calls = EmptyBag
    /\ imgLoading = FALSE
    /\ lastSupplied = Undefined
    /\ lastEvent = "init"
    /\ emitted = <<>>

Init ==
    /\ InitComponent
    /\ fmtBytes = <<>>
    /\ fmtResult = NoResult

\* The caller's side of setValue: lastSupplied is the latest write operation
\* a caller has passed in.
Supply(writeOperation) ==
    lastSupplied' =
        IF writeOperation # Undefined THEN writeOperation ELSE lastSupplied

\* setValue that keeps a write operation once one is stored.
setValueKeepFirst(writeOperation) ==
    /\ storedWriteOperation' =
          IF writeOperation # Undefined /\ storedWriteOperation = Undefined
          THEN writeOperation
          ELSE storedWriteOperation
    /\ Supply(writeOperation)
    /\ lastEvent' = "setValue"
    /\ emitted' = <<>>
    /\ UNCHANGED fmtVars
    /\ UNCHANGED <<isObserving, selectedFile, currentImageUrl, metadata,
                   loading, statusText, statusType, fileInputValue, readers,
                   calls, imgLoading>>

\* setValue(_value, options): only options.writeOperation is retained.
setValue(writeOperation) ==
    /\ storedWriteOperation' =
          IF writeOperation # Undefined THEN writeOperation
          ELSE storedWriteOperation
    /\ Supply(writeOperation)
    /\ lastEvent' = "setValue"
    /\ emitted' = <<>>
    /\ UNCHANGED fmtVars
    /\ UNCHANGED <<isObserving, selectedFile, currentImageUrl, metadata,
                   loading, statusText, statusType, fileInputValue, readers,
                   calls, imgLoading>>

\* handleFileSelect(event) where event.target.files is empty: early return.
\* The picker's value is the browser's, set before the change event.
handleFileSelectNone ==
    /\ fileInputValue' = ""
    /\ lastEvent' = "fileSelect"
    /\ emitted' = <<>>
    /\ UNCHANGED fmtVars
    /\ UNCHANGED <<isObserving, selectedFile, currentImageUrl, metadata,
                   loading, statusText, statusType, storedWriteOperation,
                   readers, calls, imgLoading, lastSupplied>>

\* handleFileSelect(event) with event.target.files[0] = file: records the
\* file, leaves observation, and starts a FileReader on it.
handleFileSelect(file) ==
    /\ BagCardinality(readers) < MaxReaders
    /\ fileInputValue' = file
    /\ selectedFile' = file
    /\ isObserving' = FALSE
    /\ IF isObserving
       THEN updateStatus("Live stopped for selection", "neutral",
                         currentImageUrl, metadata)
       ELSE UNCHANGED <<statusText, statusType, metadata>>
    /\ readers' = readers (+) SetToBag({file})
    /\ lastEvent' = "fileSelect"
    /\ emitted' = <<>>
    /\ UNCHANGED fmtVars
    /\ UNCHANGED <<currentImageUrl, loading, storedWriteOperation, calls,
                   imgLoading, lastSupplied>>

\* reader.onload of a pending FileReader on file: pending reads complete in
\* any order.  A read that fails runs no code of the component (no onerror is
\* registered) and is a read that stays pending.  A changed src makes the
\* rendered <img> load again.
readerOnload(file) ==
    /\ BagIn(file, readers)
    /\ LET result == DataURL(file)
           url == IF result # "" THEN result ELSE currentImageUrl
       IN /\ currentImageUrl' = url
          /\ updateStatus("Displaying", "neutral", url, metadata)
          /\ imgLoading' = IF url # currentImageUrl THEN TRUE ELSE imgLoading
    /\ readers' = readers (-) SetToBag({file})
    /\ lastEvent' = "readerOnload"
    /\ emitted' = <<>>
    /\ UNCHANGED fmtVars
    /\ UNCHANGED <<isObserving, selectedFile, loading, storedWriteOperation,
                   fileInputValue, calls, lastSupplied>>

\* handleSend() that checks only the selected file: calling the absent write
\* operation throws inside the try.
handleSendNoopUnchecked ==
    /\ selectedFile = Null \/ storedWriteOperation = Undefined
    /\ IF selectedFile = Null
       THEN UNCHANGED <<metadata, loading, statusText, statusType>>
       ELSE /\ updateStatus("Failed to send", "error", currentImageUrl,
                            StatusMetadata("neutral", currentImageUrl,
                                           metadata))
            /\ loading' = FALSE
    /\ lastEvent' = "send"
    /\ emitted' = <<>>
    /\ UNCHANGED fmtVars
    /\ UNCHANGED <<isObserving, selectedFile, currentImageUrl,
                   storedWriteOperation, fileInputValue, readers, calls,
                   imgLoading, lastSupplied>>

\* handleSend() without a selected file or without a stored write operation.
handleSendNoop ==
    /\ selectedFile = Null \/ storedWriteOperation = Undefined
    /\ lastEvent' = "send"
    /\ emitted' = <<>>
    /\ UNCHANGED fmtVars
    /\ UNCHANGED <<isObserving, selectedFile, currentImageUrl, metadata,
                   loading, statusText, statusType, storedWriteOperation,
                   fileInputValue, readers, calls, imgLoading, lastSupplied>>

\* handleSend() that passes the picker's current value instead of the
\* selected file.
handleSendFromInput ==
    /\ selectedFile # Null /\ storedWriteOperation # Undefined
    /\ BagCardinality(calls) < MaxSends
    /\ loading' = TRUE
    /\ updateStatus("Sending...", "neutral", currentImageUrl, metadata)
    /\ calls' = calls (+) SetToBag({fileInputValue})
    /\ lastEvent' = "send"
    /\ emitted' = <<[op |-> storedWriteOperation, file |-> fileInputValue,
                     returned |-> "promise"]>>
    /\ UNCHANGED fmtVars
    /\ UNCHANGED <<isObserving, selectedFile, currentImageUrl,
                   storedWriteOperation, fileInputValue, readers, imgLoading,
                   lastSupplied>>

\* handleSend() up to the await: the write operation is invoked with the
\* selected file and returns a promise, which is then in flight.
handleSend ==
    /\ selectedFile # Null /\ storedWriteOperation # Undefined
    /\ BagCardinality(calls) < MaxSends
    /\ loading' = TRUE
    /\ updateStatus("Sending...", "neutral", currentImageUrl, metadata)
    /\ calls' = calls (+) SetToBag({selectedFile})
    /\ lastEvent' = "send"
    /\ emitted' = <<[op |-> storedWriteOperation, file |-> selectedFile,
                     returned |-> "promise"]>>
    /\ UNCHANGED fmtVars
    /\ UNCHANGED <<isObserving, selectedFile, currentImageUrl,
                   storedWriteOperation, fileInputValue, readers, imgLoading,
                   lastSupplied>>

\* handleSend() whose loading flag is cleared only after the await: a write
\* operation that throws before returning a promise leaves it set.
handleSendThrowNoFinally ==
    /\ selectedFile # Null /\ storedWriteOperation # Undefined
    /\ updateStatus("Failed to send", "error", currentImageUrl,
                    StatusMetadata("neutral", currentImageUrl, metadata))
    /\ loading' = TRUE
    /\ lastEvent' = "send"
    /\ emitted' = <<[op |-> storedWriteOperation, file |-> selectedFile,
                     returned |-> "threw"]>>
    /\ UNCHANGED fmtVars
    /\ UNCHANGED <<isObserving, selectedFile, currentImageUrl,
                   storedWriteOperation, fileInputValue, readers, calls,
                   imgLoading, lastSupplied>>

\* handleSend() with a write operation that throws before returning a
\* promise: try, catch and finally run in the same turn.
handleSendThrow ==
    /\ selectedFile # Null /\ storedWriteOperation # Undefined
    /\ updateStatus("Failed to send", "error", currentImageUrl,
                    StatusMetadata("neutral", currentImageUrl, metadata))
    /\ loading' = FALSE
    /\ lastEvent' = "send"
    /\ emitted' = <<[op |-> storedWriteOperation, file |-> selectedFile,
                     returned |-> "threw"]>>
    /\ UNCHANGED fmtVars
    /\ UNCHANGED <<isObserving, selectedFile, currentImageUrl,
                   storedWriteOperation, fileInputValue, readers, calls,
                   imgLoading, lastSupplied>>

\* The continuation of handleSend without a finally: the loading flag is
\* cleared on the success path only.
handleSendSettledNoFinally(file, resolved) ==
    /\ BagIn(file, calls)
    /\ IF resolved
       THEN updateStatus("Sent successfully", "success", currentImageUrl,
                         metadata)
       ELSE updateStatus("Failed to send", "error", currentImageUrl, metadata)
    /\ loading' = IF resolved THEN FALSE ELSE loading
    /\ calls' = calls (-) SetToBag({file})
    /\ lastEvent' = IF resolved THEN "writeResolved" ELSE "writeRejected"
    /\ emitted' = <<>>
    /\ UNCHANGED fmtVars
    /\ UNCHANGED <<isObserving, selectedFile, currentImageUrl,
                   storedWriteOperation, fileInputValue, readers, imgLoading,
                   lastSupplied>>

\* The continuation of handleSend after the await, when the promise of the
\* in-flight invocation on file settles: try or catch, then finally.
handleSendSettled(file, resolved) ==
    /\ BagIn(file, calls)
    /\ IF resolved
       THEN updateStatus("Sent successfully", "success", currentImageUrl,
                         metadata)
       ELSE updateStatus("Failed to send", "error", currentImageUrl, metadata)
    /\ loading' = FALSE
    /\ calls' = calls (-) SetToBag({file})
    /\ lastEvent' = IF resolved THEN "writeResolved" ELSE "writeRejected"
    /\ emitted' = <<>>
    /\ UNCHANGED fmtVars
    /\ UNCHANGED <<isObserving, selectedFile, currentImageUrl,
                   storedWriteOperation, fileInputValue, readers, imgLoading,
                   lastSupplied>>

\* onImageLoad(event): the rendered <img> finished loading its src.
onImageLoad ==
    /\ imgLoading
    /\ metadata' = [isNull |-> FALSE, format |-> "IMG",
                    width |-> NaturalWidth(currentImageUrl),
                    height |-> NaturalHeight(currentImageUrl),
                    size |-> IF selectedFile # Null
                             THEN FileSize[selectedFile] ELSE 0,
                    lastUpdated |-> Fresh]
    /\ loading' = FALSE
    /\ imgLoading' = FALSE
    /\ lastEvent' = "imageLoad"
    /\ emitted' = <<>>
    /\ UNCHANGED fmtVars
    /\ UNCHANGED <<isObserving, selectedFile, currentImageUrl, statusText,
                   statusType, storedWriteOperation, fileInputValue, readers,
                   calls, lastSupplied>>

\* The <img> onError handler: updateStatus("Failed to display image", 'error').
onImageError ==
    /\ imgLoading
    /\ updateStatus("Failed to display image", "error", currentImageUrl,
                    metadata)
    /\ imgLoading' = FALSE
    /\ lastEvent' = "imageError"
    /\ emitted' = <<>>
    /\ UNCHANGED fmtVars
    /\ UNCHANGED <<isObserving, selectedFile, currentImageUrl, loading,
                   storedWriteOperation, fileInputValue, readers, calls,
                   lastSupplied>>

\* A Cancel that also clears the displayed image and its metadata.
CancelClearsImage ==
    /\ selectedFile # Null
    /\ selectedFile' = Null
    /\ fileInputValue' = ""
    /\ currentImageUrl' = Null
    /\ metadata' = NullMetadata
    /\ imgLoading' = FALSE
    /\ lastEvent' = "cancel"
    /\ emitted' = <<>>
    /\ UNCHANGED fmtVars
    /\ UNCHANGED <<isObserving, loading, statusText, statusType,
                   storedWriteOperation, readers, calls, lastSupplied>>

\* The Cancel button's onClick; the button is rendered while a file is selected.
Cancel ==
    /\ selectedFile # Null
    /\ selectedFile' = Null
    /\ fileInputValue' = ""
    /\ lastEvent' = "cancel"
    /\ emitted' = <<>>
    /\ UNCHANGED fmtVars
    /\ UNCHANGED <<isObserving, currentImageUrl, metadata, loading,
                   statusText, statusType, storedWriteOperation, readers,
                   calls, imgLoading, lastSupplied>>

\* Time passes between events: the present timestamp becomes a past one.
Tick ==
    /\ metadata.lastUpdated = Fresh
    /\ metadata' = [metadata EXCEPT !.lastUpdated = Stale]
    /\ UNCHANGED fmtVars
    /\ UNCHANGED <<isObserving, selectedFile, currentImageUrl, loading,
                   statusText, statusType, storedWriteOperation,
                   fileInputValue, readers, calls, imgLoading, lastSupplied,
                   lastEvent, emitted>>

\* A caller's setValue, with or without a write operation; a caller's second
\* function is the one named f2.
SetValueAny ==
    \E w \in WriteOps \cup {Undefined} :
        /\ w = "f2" => lastSupplied # Undefined
        /\ setValue(w)
FileSelectAny == \E f \in Files : handleFileSelect(f)
ReaderOnloadAny == \E f \in Files : readerOnload(f)
SendSettledAny ==
    \E f \in Files : \E resolved \in BOOLEAN : handleSendSettled(f, resolved)

Next ==
    \/ SetValueAny
    \/ handleFileSelectNone
    \/ FileSelectAny
    \/ ReaderOnloadAny
    \/ handleSendNoop
    \/ handleSend
    \/ handleSendThrow
    \/ SendSettledAny
    \/ onImageLoad
    \/ onImageError
    \/ Cancel
    \/ Tick

Spec == Init /\ [][Next]_vars

\* ------------------------------------------------------ formatFileSize

\* const k = 1024
k == 1024
\* const sizes = ['B', 'KB', 'MB', 'GB', 'TB']
sizes == <<"B", "KB", "MB", "GB", "TB">>

\* A byte count is a natural number written in base k, least significant
\* digit first, without a leading zero digit; <<>> is 0.  (1024^5 = 2^50
\* does not fit a 32-bit integer.)
Digits == {0, 1, 128, 512, 1022}
RECURSIVE Value(_)
Value(d) == IF d = <<>> THEN 0 ELSE d[1] + k * Value(Tail(d))

\* Number.isSafeInteger(bytes): below 2^53 = 8 * 1024^5, where every integer
\* is a double and bytes / Math.pow(k, i) is exact.
IsSafeInteger(d) == Len(d) <= 5 \/ (Len(d) = 6 /\ d[6] < 8)

ByteCounts ==
    {d \in UNION {[1..n -> Digits] : n \in 0..MaxDigits} :
        /\ d # <<>> => d[Len(d)] # 0
        /\ IsSafeInteger(d)}

\* Math.floor(Math.log(bytes) / Math.log(k)) for bytes >= 1.  The quotient of
\* the two double logarithms has this floor for every byte count of
\* ByteCounts; it rounds up to 5 only for bytes in 1024^5 - 3 .. 1024^5 - 1,
\* which the digits above leave out.
RECURSIVE FloorLog(_)
FloorLog(d) == IF Len(d) <= 1 THEN 0 ELSE 1 + FloorLog(Tail(d))

\* d * m + c, for small m and c.
RECURSIVE MulAdd(_, _, _)
MulAdd(d, m, c) ==
    IF d = <<>>
    THEN IF c = 0 THEN <<>> ELSE <<c % k>> \o MulAdd(<<>>, m, c \div k)
    ELSE <<(d[1] * m + c) % k>> \o MulAdd(Tail(d), m, (d[1] * m + c) \div k)

\* d + c * k^(pos - 1).
RECURSIVE AddAt(_, _, _)
AddAt(d, pos, c) ==
    IF pos > 1
    THEN <<IF d = <<>> THEN 0 ELSE d[1]>>
         \o AddAt(IF d = <<>> THEN <<>> ELSE Tail(d), pos - 1, c)
    ELSE IF c = 0 THEN d
    ELSE LET h == (IF d = <<>> THEN 0 ELSE d[1]) + c
         IN <<h % k>> \o AddAt(IF d = <<>> THEN <<>> ELSE Tail(d), 1, h \div
              k)

\* (bytes / Math.pow(k, i)).toFixed(2), in hundredths: the quotient is exact,
\* and toFixed rounds it to the nearest hundredth, a tie to the larger:
\* floor((100 * bytes + k^i / 2) / k^i).
ToFixed2(d, i) ==
    LET p == MulAdd(d, 100, 0)
        q == IF i = 0 THEN p ELSE AddAt(p, i, k \div 2)
    IN Value(SubSeq(q, i + 1, Len(q)))

\* formatFileSize(bytes): the number (parseFloat of the rounded text, kept in
\* hundredths) and the unit sizes[i], undefined past the end of the array.
formatFileSize(bytes) ==
    IF bytes = <<>> THEN [num |-> 0, unit |-> "B"]
    ELSE LET i == FloorLog(bytes)
         IN [num |-> ToFixed2(bytes, i),
             unit |-> IF i + 1 \in DOMAIN sizes THEN sizes[i + 1]
                      ELSE Undefined]

\* The formatter applied to one byte count.
InitFmt ==
    /\ InitComponent
    /\ fmtBytes \in ByteCounts
    /\ fmtResult = NoResult

FormatStep ==
    /\ fmtResult = NoResult
    /\ fmtResult' = formatFileSize(fmtBytes)
    /\ UNCHANGED <<isObserving, selectedFile, currentImageUrl, metadata,
                   loading, statusText, statusType, storedWriteOperation,
                   fileInputValue, readers, calls, imgLoading, lastSupplied,
                   lastEvent, emitted, fmtBytes>>

NextFmt == FormatStep

SpecFmt == InitFmt /\ [][NextFmt]_vars

\* The component's specification with every in-flight write operation
\* settling eventually.
FairSpec == Spec /\ WF_vars(SendSettledAny)

\* ------------------------------------------------------------- properties

\* Time passes in this step.
TickStep == metadata.lastUpdated = Fresh /\ metadata'.lastUpdated = Stale

\* A step of the handler of event e (time stands still during a handler).
HandlerStep(e) == lastEvent' = e /\ ~TickStep

\* The promise of one in-flight invocation settles in this step.
SettleStep == BagCardinality(calls') = BagCardinality(calls) - 1

\* The write operation is invoked in this step and throws.
ThrowStep ==
    /\ HandlerStep("send")
    /\ selectedFile # Null /\ storedWriteOperation # Undefined
    /\ calls' = calls

\* C1: when the promise of a started send resolves, the status becomes
\* success "Sent successfully"; when it rejects, or the write operation
\* throws, the status becomes error "Failed to send"; in every case loading
\* is false right after that step.
C1_SendOutcome ==
    [][/\ SettleStep => lastEvent' \in {"writeResolved", "writeRejected"}
       /\ (SettleStep /\ lastEvent' = "writeResolved") =>
             /\ statusType' = "success"
             /\ statusText' = "Sent successfully"
             /\ loading' = FALSE
       /\ ((SettleStep /\ lastEvent' = "writeRejected") \/ ThrowStep) =>
             /\ statusType' = "error"
             /\ statusText' = "Failed to send"
             /\ loading' = FALSE]_vars

\* A send was rejected while another is still in flight.
C1_Witness ==
    /\ lastEvent = "writeRejected"
    /\ statusText = "Failed to send"
    /\ ~loading
    /\ calls # EmptyBag

\* C2: send invoked with no selected file or no stored write operation
\* changes nothing: status, loading, metadata, selected file and image stay
\* as they were, and the write operation is not invoked.
C2_SendNoop ==
    [][(HandlerStep("send")
        /\ (selectedFile = Null \/ storedWriteOperation = Undefined)) =>
            /\ UNCHANGED <<statusText, statusType, loading, metadata,
                           selectedFile, currentImageUrl, calls>>
            /\ emitted' = <<>>]_vars

\* A file was selected and decoded, no write operation was ever supplied,
\* and send has just been invoked.
C2_Witness ==
    /\ lastEvent = "send"
    /\ selectedFile # Null
    /\ lastSupplied = Undefined
    /\ statusText = "Displaying"
    /\ ~loading
    /\ emitted = <<>>

\* C3: the stored write operation is the last one supplied: every send that
\* starts invokes the write operation most recently passed to setValue.
C3_LastWriteWins ==
    [][(HandlerStep("send") /\ emitted' # <<>>) =>
            /\ lastSupplied # Undefined
            /\ emitted'[1].op = lastSupplied]_vars

\* f1 and then f2 were supplied, and a send has invoked f2.
C3_Witness ==
    /\ lastEvent = "send"
    /\ lastSupplied = "f2"
    /\ emitted # <<>>
    /\ emitted[1].op = "f2"

\* C4: with a file selected and no decode pending, the displayed image is
\* the data URL of the selected file, whatever the order in which the pending
\* decodes completed.
C4_ReplacesBoth ==
    (selectedFile # Null /\ readers = EmptyBag) =>
        currentImageUrl = DataURL(selectedFile)

\* C5: an image is displayed only while a file is selected.
C5_ImageOnlyWhileSelected ==
    currentImageUrl # Null => selectedFile # Null

\* The metadata after updateStatus with classification type, while img is
\* the displayed image: the timestamp is refreshed, and nothing else changes,
\* exactly when type is success, or img is present and type is not error.
C6_MetadataEffect(type, img) ==
    IF type = "success" \/ (type # "error" /\ img # Null)
    THEN /\ ~metadata'.isNull
         /\ metadata'.lastUpdated = Fresh
         /\ metadata'.format = metadata.format
         /\ metadata'.width = metadata.width
         /\ metadata'.height = metadata.height
         /\ metadata'.size = metadata.size
    ELSE metadata' = metadata

\* The handlers that are one call of updateStatus, with its arguments.
C6_Calls ==
    {[event |-> "readerOnload", msg |-> "Displaying", type |-> "neutral"],
     [event |-> "imageError", msg |-> "Failed to display image",
      type |-> "error"],
     [event |-> "writeResolved", msg |-> "Sent successfully",
      type |-> "success"],
     [event |-> "writeRejected", msg |-> "Failed to send", type |-> "error"],
     [event |-> "send", msg |-> "Sending...", type |-> "neutral"]}

\* C6: updateStatus(msg, type) overwrites the status pair with (msg, type)
\* and refreshes metadata.lastUpdated exactly when type is success, or an
\* image is displayed and type is not error; otherwise metadata is unchanged,
\* and a refresh keeps every other metadata field.
C6_UpdateStatus ==
    [][\A c \in C6_Calls :
          (/\ HandlerStep(c.event)
           /\ c.event = "send" => calls' # calls) =>
              /\ statusText' = c.msg
              /\ statusType' = c.type
              /\ C6_MetadataEffect(c.type, currentImageUrl')]_vars

\* An error status was set while an image is displayed, and the timestamp
\* is older than the clock.
C6_Witness ==
    /\ lastEvent \in {"imageError", "writeRejected"}
    /\ statusType = "error"
    /\ currentImageUrl # Null
    /\ ~metadata.isNull
    /\ metadata.lastUpdated = Stale

\* C7: Cancel clears the selected file and changes nothing else: the image,
\* the metadata, the status, the loading flag, the stored write operation and
\* the sends in flight stay as they were.
C7_CancelFrame ==
    [][HandlerStep("cancel") =>
          /\ selectedFile' = Null
          /\ UNCHANGED <<currentImageUrl, metadata, statusText, statusType,
                         loading, storedWriteOperation, calls, readers>>]_vars

\* Cancelled while an image is displayed and a send is in flight.
C7_Witness ==
    /\ lastEvent = "cancel"
    /\ selectedFile = Null
    /\ currentImageUrl # Null
    /\ ~metadata.isNull
    /\ loading
    /\ calls # EmptyBag

\* C8: the write operation is invoked exactly once by every send that
\* starts, with the file selected at that instant; no other handler invokes
\* it, and the files of the sends in flight change only by a send starting
\* or settling.
C8_WriteInvocation ==
    [][/\ Len(emitted') <= 1
       /\ (HandlerStep("send")
           /\ selectedFile # Null /\ storedWriteOperation # Undefined) =>
             /\ Len(emitted') = 1
             /\ emitted'[1].file = selectedFile
             /\ emitted'[1].op = storedWriteOperation
             /\ \/ emitted'[1].returned = "threw" /\ calls' = calls
                \/ /\ emitted'[1].returned = "promise"
                   /\ calls' = calls (+) SetToBag({selectedFile})
       /\ (~TickStep /\ lastEvent' # "send") =>
             /\ emitted' = <<>>
             /\ \/ calls' = calls
                \/ /\ lastEvent' \in {"writeResolved", "writeRejected"}
                   /\ \E f \in BagToSet(calls) :
                         calls' = calls (-) SetToBag({f})
       /\ TickStep => UNCHANGED <<emitted, calls>>]_vars

\* A send of a.png is in flight while b.png is the selected file.
C8_Witness ==
    /\ BagIn("a.png", calls)
    /\ ~BagIn("b.png", calls)
    /\ selectedFile = "b.png"
    /\ lastEvent = "fileSelect"

\* C9: formatFileSize gives "0 B" for 0, and for a byte count B >= 1 the
\* unit sizes[i] with i = floor(log_1024(B)), within B .. TB, and the number
\* B / 1024^i rounded to two decimals.
C9_FormatFileSize ==
    fmtResult # NoResult =>
        IF fmtBytes = <<>>
        THEN fmtResult = [num |-> 0, unit |-> "B"]
        ELSE LET i == Len(fmtBytes) - 1
             IN /\ i \in 0..4
                /\ fmtResult.unit = sizes[i + 1]
                /\ fmtResult.num = ToFixed2(fmtBytes, i)

\* C10: loading is true only while a send is in flight, and with every write
\* operation settling eventually loading is eventually false.
C10_LoadingInFlight ==
    /\ [](loading => calls # EmptyBag)
    /\ loading ~> ~loading

\* Two sends overlap and the loading flag is set.
C10_Witness ==
    /\ loading
    /\ BagCardinality(calls) = 2

====
